---- MODULE Spec2Model ----
(***************************************************************************)
(* Model of share/dss/dss.go: one DSS signing session (type DSS) and the   *)
(* calls made on it.  The group of the suite is modelled as the cyclic     *)
(* group of prime order Q: a scalar is an element of 0..Q-1 and a point is *)
(* represented by its discrete logarithm to the base point, so that        *)
(* Point().Mul(s, nil) is s, Point().Mul(s, P) is s*P mod Q and point      *)
(* equality is equality of the representatives.                            *)
(***************************************************************************)
EXTENDS Integers, Sequences, FiniteSets, TLC

\* ---------------------------------------------------------------- bounds
\* The threshold T handed to NewDSS is drawn from 1..MaxT.
MaxT == 2
\* Runs of the key generation (dealings) are 0..MaxDealing.
MaxDealing == 0

\* Number of commitments of a distributed key share (the t of the sharing).
TPoly == 2

\* Order of the group of the suite (a prime larger than the registry).
Q == 5

Scalars == 0 .. (Q - 1)

\* ------------------------------------------------------- group arithmetic
ScalarAdd(a, b) == (a + b) % Q
ScalarSub(a, b) == ((a - b) + Q) % Q
ScalarMul(a, b) == (a * b) % Q
ScalarInv(a) == CHOOSE y \in Scalars : (a * y) % Q = 1
BaseMul(s) == s % Q
PointMul(s, P) == (s * P) % Q
PointAdd(P1, P2) == (P1 + P2) % Q

\* ------------------------------------------------------------- hashing
\* s.Hash(): a collision-free hash is the tagged tuple of the bytes written.
Hash(bytes) == <<"H", bytes>>
\* sha512 reduced to a scalar (Scalar().SetBytes).
HashToScalar(R, A, m) == (1 + R + (2 * A) + (3 * m)) % Q

\* ----------------------------------------------- single-party signatures
NoSig == [pk |-> -1, m |-> <<>>]
SchnorrSign(secret, m) == [pk |-> BaseMul(secret), m |-> m]
SchnorrVerify(public, m, sig) == sig.pk = public /\ sig.m = m

\* ------------------------------------------------------ secret sharing
RECURSIVE EvalPoly(_, _, _)
\* Horner evaluation of the coefficients coef[k..] at x
EvalPoly(coef, k, x) ==
    IF k > Len(coef) THEN 0
    ELSE (coef[k] + x * EvalPoly(coef, k + 1, x)) % Q

\* share.PriPoly.Eval(i): the private share of index i is f(i + 1)
PriEval(coef, i) == EvalPoly(coef, 1, (i + 1) % Q)
\* share.PubPoly.Eval(i): the commitment to the share of index i
PubEval(commits, i) == EvalPoly(commits, 1, (i + 1) % Q)

\* A DistKeyShare as the DKG hands it to the participant whose share index is i
DistKeyShare(coef, i) ==
    [I |-> i, V |-> PriEval(coef, i),
     commits |-> [k \in 1 .. Len(coef) |-> BaseMul(coef[k])]]

RECURSIVE FirstValid(_, _, _, _)
\* the first t shares of the list with an index in [0, n)
FirstValid(shares, k, t, n) ==
    IF t = 0 \/ k > Len(shares) THEN <<>>
    ELSE IF shares[k].I < 0 \/ n <= shares[k].I
         THEN FirstValid(shares, k + 1, t, n)
         ELSE <<shares[k]>> \o FirstValid(shares, k + 1, t - 1, n)

RECURSIVE LagrangeNum(_, _, _)
LagrangeNum(xs, i, j) ==
    IF j > Len(xs) THEN 1
    ELSE IF j = i THEN LagrangeNum(xs, i, j + 1)
         ELSE ScalarMul(xs[j].I + 1, LagrangeNum(xs, i, j + 1))

RECURSIVE LagrangeDen(_, _, _)
LagrangeDen(xs, i, j) ==
    IF j > Len(xs) THEN 1
    ELSE IF j = i THEN LagrangeDen(xs, i, j + 1)
         ELSE ScalarMul(ScalarSub(xs[j].I + 1, xs[i].I + 1), LagrangeDen(xs, i, j + 1))

RECURSIVE LagrangeSum(_, _)
LagrangeSum(xs, i) ==
    IF i > Len(xs) THEN 0
    ELSE ScalarAdd(ScalarMul(ScalarMul(xs[i].V, LagrangeNum(xs, i, 1)),
                             ScalarInv(LagrangeDen(xs, i, 1))),
                   LagrangeSum(xs, i + 1))

\* share.RecoverSecret(suite, shares, t, n)
RecoverSecret(shares, t, n) ==
    LET xs == FirstValid(shares, 1, t, n) IN
    IF Len(xs) < t THEN [err |-> "RecoveryFailure", v |-> 0]
    ELSE IF \E i, j \in 1 .. Len(xs) : i # j /\ xs[i].I = xs[j].I
         THEN [err |-> "RecoveryFailure", v |-> 0]
         ELSE [err |-> "nil", v |-> LagrangeSum(xs, 1)]

\* ------------------------------------------------------------ fixtures
\* long-term individual secret keys of the registered participants
PrivKeys == <<1, 2, 3>>
PrivKey(j) == PrivKeys[j + 1]
\* the participant registry, a Go slice: position j is participants[j + 1]
participants == [j \in 1 .. Len(PrivKeys) |-> BaseMul(PrivKeys[j])]
N == Len(participants)
Indices == 0 .. (N - 1)

\* coefficients of the long-term and of the ephemeral sharing polynomial that
\* dealing k produced (non-zero, degree TPoly - 1)
LongCoef(k) == [j \in 1 .. TPoly |-> 1 + ((k + j - 1) % (Q - 1))]
RandCoef(k) == [j \in 1 .. TPoly |-> 1 + ((k + 2 * j) % (Q - 1))]
Dealings == 0 .. MaxDealing
\* the message signed with dealing k (an ephemeral dealing is used only once)
Msg(k) == k

VARIABLES d, partials, partialsIdx, signed, call, issued
vars == <<d, partials, partialsIdx, signed, call, issued>>
state == <<d, partials, partialsIdx, signed>>

\* ------------------------------------------------------------- helpers
\* sessionID(suite, a, b)
sessionID(a, b) == Hash(a.commits \o b.commits)

\* PartialSig.Hash(suite): hash of the share's hash and the session id
PSHash(ps) == Hash(<<Hash(<<ps.Partial.V>>), ps.SessionID>>)

\* findPub(list, i)
findPub(list, i) ==
    IF i >= Len(list) THEN [ok |-> FALSE, pub |-> -1, panic |-> FALSE]
    ELSE IF i < 0 THEN [ok |-> FALSE, pub |-> -1, panic |-> TRUE]
         ELSE [ok |-> TRUE, pub |-> list[i + 1], panic |-> FALSE]

\* DSS.hashSig()
hashSig == HashToScalar(d.random.commits[1], d.long.commits[1], d.msg)

\* NewDSS keeping the last matching position instead of the first
NewDSS_LastMatch(secret, plist, long, random, msg, T) ==
    LET public == BaseMul(secret)
        found == \E j \in 1 .. Len(plist) : plist[j] = public
    IN IF ~found THEN [err |-> "ParticipantNotFound"]
       ELSE [err |-> "nil",
             secret |-> secret,
             public |-> public,
             index |-> (CHOOSE j \in 1 .. Len(plist) :
                           /\ plist[j] = public
                           /\ \A k \in (j + 1) .. Len(plist) : plist[k] # public) - 1,
             T |-> T,
             long |-> long,
             random |-> random,
             msg |-> msg,
             sessionID |-> sessionID(long, random)]

\* NewDSS(suite, secret, participants, long, random, msg, T)
NewDSS(secret, plist, long, random, msg, T) ==
    LET public == BaseMul(secret)
        found == \E j \in 1 .. Len(plist) : plist[j] = public
    IN IF ~found THEN [err |-> "ParticipantNotFound"]
       ELSE [err |-> "nil",
             secret |-> secret,
             public |-> public,
             index |-> (CHOOSE j \in 1 .. Len(plist) :
                           /\ plist[j] = public
                           /\ \A k \in 1 .. (j - 1) : plist[k] # public) - 1,
             T |-> T,
             long |-> long,
             random |-> random,
             msg |-> msg,
             sessionID |-> sessionID(long, random)]

NoPS == [Partial |-> [I |-> -1, V |-> 0], SessionID |-> <<>>, Signature |-> NoSig]
\* the last call made on the session: its argument and what it returned
NoCall == [op |-> "none", ps |-> NoPS, err |-> "nil", enough |-> FALSE, sig |-> <<>>]

Init ==
    /\ \E secret \in Scalars, k \in Dealings, T \in 1 .. MaxT :
          LET m == Msg(k)
              i == NewDSS(secret, participants, DistKeyShare(LongCoef(k), 0),
                          DistKeyShare(RandCoef(k), 0), m, T)
          IN /\ i.err = "nil"
             \* the key generation hands each participant the shares of its position
             /\ d = NewDSS(secret, participants, DistKeyShare(LongCoef(k), i.index),
                           DistKeyShare(RandCoef(k), i.index), m, T)
    /\ partials = <<>>
    /\ partialsIdx = {}
    /\ signed = FALSE
    /\ call = NoCall
    /\ issued = NoPS

\* ------------------------------------------------------------ operations
\* PartialSig without the one-shot flag: the own share is appended on every call
\* (the list is kept finite)
PartialSig_AlwaysAppend(signErr) ==
    LET alpha == d.long.V
        beta == d.random.V
        hash == hashSig
        right == ScalarMul(hash, alpha)
        ps0 == [Partial |-> [V |-> ScalarAdd(right, beta), I |-> d.index],
                SessionID |-> d.sessionID,
                Signature |-> NoSig]
        ps == [ps0 EXCEPT !.Signature =
                  IF signErr THEN NoSig ELSE SchnorrSign(d.secret, PSHash(ps0))]
    IN /\ partialsIdx' = partialsIdx \cup {d.index}
       /\ partials' = IF Len(partials) < N + 1 THEN Append(partials, ps.Partial)
                      ELSE partials
       /\ signed' = TRUE
       /\ call' = [NoCall EXCEPT !.op = "PartialSig", !.ps = ps,
                                 !.err = IF signErr THEN "SignFailure" ELSE "nil"]
       /\ issued' = IF issued = NoPS THEN ps ELSE issued
       /\ UNCHANGED d

\* DSS.PartialSig(); signErr: schnorr.Sign returns an error
PartialSig(signErr) ==
    LET alpha == d.long.V
        beta == d.random.V
        hash == hashSig
        right == ScalarMul(hash, alpha)
        ps0 == [Partial |-> [V |-> ScalarAdd(right, beta), I |-> d.index],
                SessionID |-> d.sessionID,
                Signature |-> NoSig]
        ps == [ps0 EXCEPT !.Signature =
                  IF signErr THEN NoSig ELSE SchnorrSign(d.secret, PSHash(ps0))]
    IN /\ IF ~signed
          THEN /\ partialsIdx' = partialsIdx \cup {d.index}
               /\ partials' = Append(partials, ps.Partial)
               /\ signed' = TRUE
          ELSE UNCHANGED <<partialsIdx, partials, signed>>
       /\ call' = [NoCall EXCEPT !.op = "PartialSig", !.ps = ps,
                                 !.err = IF signErr THEN "SignFailure" ELSE "nil"]
       /\ issued' = IF issued = NoPS THEN ps ELSE issued
       /\ UNCHANGED d

\* ProcessErr without the duplicate check (the list is kept finite)
ProcessErr_NoDupCheck(ps) ==
    LET f == findPub(participants, ps.Partial.I) IN
    IF f.panic THEN "panic"
    ELSE IF ~f.ok THEN "IndexOutOfRange"
    ELSE IF ~SchnorrVerify(f.pub, PSHash(ps), ps.Signature) THEN "InvalidAuthentication"
    ELSE IF ps.SessionID # d.sessionID THEN "SessionMismatch"
    ELSE IF Len(partials) > N THEN "DuplicateShare"
    ELSE LET right == PointAdd(PubEval(d.random.commits, ps.Partial.I),
                               PointMul(hashSig, PubEval(d.long.commits, ps.Partial.I)))
             left == BaseMul(ps.Partial.V)
         IN IF left # right THEN "InvalidPartialValue" ELSE "nil"

\* ProcessErr with the session id compared before the tag is verified
ProcessErr_SidFirst(ps) ==
    LET f == findPub(participants, ps.Partial.I) IN
    IF f.panic THEN "panic"
    ELSE IF ~f.ok THEN "IndexOutOfRange"
    ELSE IF ps.SessionID # d.sessionID THEN "SessionMismatch"
    ELSE IF ~SchnorrVerify(f.pub, PSHash(ps), ps.Signature) THEN "InvalidAuthentication"
    ELSE IF ps.Partial.I \in partialsIdx THEN "DuplicateShare"
    ELSE LET right == PointAdd(PubEval(d.random.commits, ps.Partial.I),
                               PointMul(hashSig, PubEval(d.long.commits, ps.Partial.I)))
             left == BaseMul(ps.Partial.V)
         IN IF left # right THEN "InvalidPartialValue" ELSE "nil"

\* ProcessErr verifying the tag under the key the tag names instead of the key
\* registered at the claimed index
ProcessErr_AnyKey(ps) ==
    LET f == findPub(participants, ps.Partial.I) IN
    IF f.panic THEN "panic"
    ELSE IF ~f.ok THEN "IndexOutOfRange"
    ELSE IF ~SchnorrVerify(ps.Signature.pk, PSHash(ps), ps.Signature)
         THEN "InvalidAuthentication"
    ELSE IF ps.SessionID # d.sessionID THEN "SessionMismatch"
    ELSE IF ps.Partial.I \in partialsIdx THEN "DuplicateShare"
    ELSE LET right == PointAdd(PubEval(d.random.commits, ps.Partial.I),
                               PointMul(hashSig, PubEval(d.long.commits, ps.Partial.I)))
             left == BaseMul(ps.Partial.V)
         IN IF left # right THEN "InvalidPartialValue" ELSE "nil"

\* ProcessErr without the algebraic check of the value
ProcessErr_NoValueCheck(ps) ==
    LET f == findPub(participants, ps.Partial.I) IN
    IF f.panic THEN "panic"
    ELSE IF ~f.ok THEN "IndexOutOfRange"
    ELSE IF ~SchnorrVerify(f.pub, PSHash(ps), ps.Signature) THEN "InvalidAuthentication"
    ELSE IF ps.SessionID # d.sessionID THEN "SessionMismatch"
    ELSE IF ps.Partial.I \in partialsIdx THEN "DuplicateShare"
    ELSE "nil"

\* the error DSS.ProcessPartialSig(ps) returns ("nil": accepted, "panic": the
\* call does not return)
ProcessErr(ps) ==
    LET f == findPub(participants, ps.Partial.I) IN
    IF f.panic THEN "panic"
    ELSE IF ~f.ok THEN "IndexOutOfRange"
    ELSE IF ~SchnorrVerify(f.pub, PSHash(ps), ps.Signature) THEN "InvalidAuthentication"
    ELSE IF ps.SessionID # d.sessionID THEN "SessionMismatch"
    ELSE IF ps.Partial.I \in partialsIdx THEN "DuplicateShare"
    ELSE LET hash == hashSig
             idx == ps.Partial.I
             randShare == PubEval(d.random.commits, idx)
             longShare == PubEval(d.long.commits, idx)
             right == PointAdd(randShare, PointMul(hash, longShare))
             left == BaseMul(ps.Partial.V)
         IN IF left # right THEN "InvalidPartialValue" ELSE "nil"

\* ProcessPartialSig recording the index before the algebraic check
ProcessPartialSig_EarlyInsert(ps) ==
    /\ IF ProcessErr(ps) \in {"nil", "InvalidPartialValue"}
       THEN partialsIdx' = partialsIdx \cup {ps.Partial.I}
       ELSE UNCHANGED partialsIdx
    /\ IF ProcessErr(ps) = "nil"
       THEN partials' = Append(partials, ps.Partial)
       ELSE UNCHANGED partials
    /\ call' = [NoCall EXCEPT !.op = "ProcessPartialSig", !.ps = ps,
                              !.err = ProcessErr(ps)]
    /\ UNCHANGED <<d, signed, issued>>

\* ProcessPartialSig putting the accepted share at the head of the list
ProcessPartialSig_Prepend(ps) ==
    /\ IF ProcessErr(ps) = "nil"
       THEN /\ partialsIdx' = partialsIdx \cup {ps.Partial.I}
            /\ partials' = <<ps.Partial>> \o partials
       ELSE UNCHANGED <<partialsIdx, partials>>
    /\ call' = [NoCall EXCEPT !.op = "ProcessPartialSig", !.ps = ps,
                              !.err = ProcessErr(ps)]
    /\ UNCHANGED <<d, signed, issued>>

\* DSS.ProcessPartialSig(ps)
ProcessPartialSig(ps) ==
    /\ IF ProcessErr(ps) = "nil"
       THEN /\ partialsIdx' = partialsIdx \cup {ps.Partial.I}
            /\ partials' = Append(partials, ps.Partial)
       ELSE UNCHANGED <<partialsIdx, partials>>
    /\ call' = [NoCall EXCEPT !.op = "ProcessPartialSig", !.ps = ps,
                              !.err = ProcessErr(ps)]
    /\ UNCHANGED <<d, signed, issued>>

\* EnoughPartialSig with a strict comparison
EnoughPartialSig_Strict == Len(partials) > d.T

\* DSS.EnoughPartialSig()
EnoughPartialSig == Len(partials) >= d.T

\* a call of DSS.EnoughPartialSig()
QueryEnoughPartialSig ==
    /\ call' = [NoCall EXCEPT !.op = "EnoughPartialSig", !.enough = EnoughPartialSig]
    /\ UNCHANGED <<d, partials, partialsIdx, signed, issued>>

\* Signature without the threshold check
Signature_NoCheck ==
    /\ LET gamma == RecoverSecret(partials, d.T, Len(participants)) IN
            IF gamma.err # "nil"
            THEN call' = [NoCall EXCEPT !.op = "Signature", !.err = gamma.err]
            ELSE call' = [NoCall EXCEPT !.op = "Signature",
                                       !.sig = <<d.random.commits[1], gamma.v>>]
    /\ UNCHANGED <<d, partials, partialsIdx, signed, issued>>

\* Signature writing the long-term commitment in place of the ephemeral one
Signature_LongCommit ==
    /\ IF ~EnoughPartialSig
       THEN call' = [NoCall EXCEPT !.op = "Signature", !.err = "InsufficientShares"]
       ELSE LET gamma == RecoverSecret(partials, d.T, Len(participants)) IN
            IF gamma.err # "nil"
            THEN call' = [NoCall EXCEPT !.op = "Signature", !.err = gamma.err]
            ELSE call' = [NoCall EXCEPT !.op = "Signature",
                                       !.sig = <<d.long.commits[1], gamma.v>>]
    /\ UNCHANGED <<d, partials, partialsIdx, signed, issued>>

\* Signature consuming the shares it combined
Signature_Consume ==
    /\ IF ~EnoughPartialSig
       THEN /\ call' = [NoCall EXCEPT !.op = "Signature", !.err = "InsufficientShares"]
            /\ UNCHANGED partials
       ELSE LET gamma == RecoverSecret(partials, d.T, Len(participants)) IN
            IF gamma.err # "nil"
            THEN /\ call' = [NoCall EXCEPT !.op = "Signature", !.err = gamma.err]
                 /\ UNCHANGED partials
            ELSE /\ call' = [NoCall EXCEPT !.op = "Signature",
                                          !.sig = <<d.random.commits[1], gamma.v>>]
                 /\ partials' = <<>>
    /\ UNCHANGED <<d, partialsIdx, signed, issued>>

\* DSS.Signature()
Signature ==
    /\ IF ~EnoughPartialSig
       THEN call' = [NoCall EXCEPT !.op = "Signature", !.err = "InsufficientShares"]
       ELSE LET gamma == RecoverSecret(partials, d.T, Len(participants)) IN
            IF gamma.err # "nil"
            THEN call' = [NoCall EXCEPT !.op = "Signature", !.err = gamma.err]
            ELSE call' = [NoCall EXCEPT !.op = "Signature",
                                       !.sig = <<d.random.commits[1], gamma.v>>]
    /\ UNCHANGED <<d, partials, partialsIdx, signed, issued>>

\* ------------------------------------------------------------- inputs
\* a session id of another key-share pair
OtherSessionID == Hash(<<0>>)
SessionIDs == {d.sessionID, OtherSessionID}

\* the response the holder of the shares of index i computes in this session
HonestValue(i) ==
    ScalarAdd(ScalarMul(hashSig, PriEval(d.long.commits, i)), PriEval(d.random.commits, i))

\* The partial signatures a peer or the network can hand to ProcessPartialSig:
\* an index i in or around the registry, the honest value of that index or an
\* altered one (av), either session id, and a tag: made by the participant
\* registered at i over this content ("own"), made by the next participant
\* over this content ("other"), or made by the participant registered at i
\* over another value ("stale").
TagKinds == {"own", "other", "stale"}
PSInput(i, av, sid, tag) ==
    LET content == [Partial |-> [I |-> i, V |-> ScalarAdd(HonestValue(i), av)],
                    SessionID |-> sid]
        signed0 == [content EXCEPT !.Partial.V =
                       IF tag = "stale" THEN ScalarAdd(@, 1) ELSE @]
        signer == IF tag = "other" THEN (i + 1) % N ELSE i % N
    IN [Partial |-> content.Partial, SessionID |-> sid,
        Signature |-> SchnorrSign(PrivKey(signer), PSHash(signed0))]

Next ==
    \/ \E signErr \in BOOLEAN : PartialSig(signErr)
    \/ \E i \in (-1) .. N, av \in 0 .. 1, sid \in SessionIDs, tag \in TagKinds :
          ProcessPartialSig(PSInput(i, av, sid, tag))
    \/ QueryEnoughPartialSig
    \/ Signature

Spec == Init /\ [][Next]_vars

\* ------------------------------------------------------- construction
\* Participant lists handed to NewDSS have at most MaxList entries.
MaxList == 3
\* any list of points, with repeated entries and without the caller's key
PointLists == UNION { [1 .. n -> Scalars] : n \in 0 .. MaxList }
\* no session has been constructed
NoSession == [err |-> "none"]

InitNew ==
    /\ d = NoSession
    /\ partials = <<>>
    /\ partialsIdx = {}
    /\ signed = FALSE
    /\ call = NoCall
    /\ issued = NoPS

\* the call of NewDSS: d is what it returns (no session when it fails), and the
\* fields the struct literal leaves out are Go zero values
CallNewDSS ==
    \E secret \in Scalars, plist \in PointLists, k \in Dealings, T \in 1 .. MaxT :
       /\ call.op = "none"
       /\ d' = NewDSS(secret, plist, DistKeyShare(LongCoef(k), 0),
                      DistKeyShare(RandCoef(k), 0), Msg(k), T)
       /\ partials' = <<>>
       /\ partialsIdx' = {}
       /\ signed' = FALSE
       /\ call' = [op |-> "NewDSS", secret |-> secret, plist |-> plist]
       /\ UNCHANGED issued

NextNew == CallNewDSS

SpecNew == InitNew /\ [][NextNew]_vars

\* ------------------------------------------------------- peer sessions
\* hashSig of a session whose challenge leaves the message out
hashSigOf_NoMsg(s) == HashToScalar(s.random.commits[1], s.long.commits[1], 0)

\* DSS.hashSig() of the session s
hashSigOf(s) == HashToScalar(s.random.commits[1], s.long.commits[1], s.msg)

\* PartialSig of a session whose response leaves the ephemeral share out
PartialSigOf_NoBeta(s, signErr) ==
    LET alpha == s.long.V
        hash == hashSigOf(s)
        right == ScalarMul(hash, alpha)
        ps0 == [Partial |-> [V |-> right, I |-> s.index],
                SessionID |-> s.sessionID,
                Signature |-> NoSig]
    IN [ps0 EXCEPT !.Signature =
           IF signErr THEN NoSig ELSE SchnorrSign(s.secret, PSHash(ps0))]

\* what DSS.PartialSig() of the session s returns; signErr: schnorr.Sign fails
PartialSigOf(s, signErr) ==
    LET alpha == s.long.V
        beta == s.random.V
        hash == hashSigOf(s)
        right == ScalarMul(hash, alpha)
        ps0 == [Partial |-> [V |-> ScalarAdd(right, beta), I |-> s.index],
                SessionID |-> s.sessionID,
                Signature |-> NoSig]
    IN [ps0 EXCEPT !.Signature =
           IF signErr THEN NoSig ELSE SchnorrSign(s.secret, PSHash(ps0))]

\* a dealing that none of the sessions under test was built from
OtherDealing == MaxDealing + 1

\* The sessions of the other participants are built by NewDSS from the
\* arguments of this session with at most one of them replaced:
\*   "same"      the same arguments, with the shares of the peer's position
\*   "index"     the shares of the next index (position # DKG share index)
\*   "long"      the long-term key share of another dealing
\*   "random"    the ephemeral key share of another dealing
\*   "split"     the same commitments in the same order, the first ephemeral
\*               one carried by the long-term share
\*   "message"   another message
\*   "threshold" another T
PeerKinds == {"same", "index", "long", "random", "split", "message", "threshold"}
Peer(j, kind) ==
    LET lc == IF kind = "long" THEN LongCoef(OtherDealing)
              ELSE IF kind = "split" THEN Append(d.long.commits, d.random.commits[1])
              ELSE d.long.commits
        rc == IF kind = "random" THEN RandCoef(OtherDealing)
              ELSE IF kind = "split" THEN Tail(d.random.commits)
              ELSE d.random.commits
        i == IF kind = "index" THEN (j + 1) % N ELSE j
    IN NewDSS(PrivKey(j), participants, DistKeyShare(lc, i), DistKeyShare(rc, i),
              IF kind = "message" THEN d.msg + 1 ELSE d.msg,
              IF kind = "threshold" THEN d.T + 1 ELSE d.T)

\* the peer at position j calls PartialSig on its session and sends what the
\* call returns: issued is the partial signature in flight (a failure of
\* schnorr.Sign is followed for the sessions built from the same arguments)
PeerPartialSig(j, kind, signErr) ==
    /\ signErr => kind = "same"
    /\ issued' = PartialSigOf(Peer(j, kind), signErr)
    /\ UNCHANGED <<d, partials, partialsIdx, signed, call>>

\* the partial signature in flight is handed to ProcessPartialSig
Deliver ==
    /\ issued # NoPS
    /\ ProcessPartialSig(issued)

\* the sessions whose partial signatures are sent to this one (T and the
\* long-term commitments enter a partial signature through the session id only)
SentKinds == PeerKinds \ {"long", "threshold"}

NextPeers ==
    \/ \E j \in Indices, kind \in SentKinds, signErr \in BOOLEAN :
          PeerPartialSig(j, kind, signErr)
    \/ Deliver

\* PartialSig and ProcessPartialSig do not read T: one threshold is followed
InitPeers == Init /\ d.T = MaxT

SpecPeers == InitPeers /\ [][NextPeers]_vars

\* ------------------------------------------------- concurrent callers
\* ProcessPartialSig is called on one session from the goroutines 1..MaxThreads.
MaxThreads == 2
Threads == 1 .. MaxThreads

\* The session holds no lock, so the statements of two calls interleave.  In
\* this specification call[t] is the call goroutine t is in: its position pc,
\* its argument, the error it returns and the slice value it has loaded.
\*   "idle"/"done"  outside a call
\*   "insert"       the checks of lines 142-169 passed, before line 170
\*   "load"         before line 171 reads d.partials
\*   "store"        before line 171 assigns d.partials
Idle == [pc |-> "idle", ps |-> NoPS, err |-> "nil", read |-> <<>>]

InitConc ==
    /\ \E secret \in Scalars, k \in Dealings, T \in 1 .. MaxT :
          LET i == NewDSS(secret, participants, DistKeyShare(LongCoef(k), 0),
                          DistKeyShare(RandCoef(k), 0), Msg(k), T)
          IN /\ i.err = "nil"
             /\ d = NewDSS(secret, participants, DistKeyShare(LongCoef(k), i.index),
                           DistKeyShare(RandCoef(k), i.index), Msg(k), T)
    /\ partials = <<>>
    /\ partialsIdx = {}
    /\ signed = FALSE
    /\ call = [t \in Threads |-> Idle]
    /\ issued = NoPS

\* lines 142-169: goroutine t enters ProcessPartialSig(ps) and runs the five
\* checks; it returns the error of the first one that fails
Check(t, ps) ==
    /\ call[t].pc \in {"idle", "done"}
    /\ ProcessErr(ps) # "panic"
    /\ call' = [call EXCEPT ![t] =
                   [pc |-> IF ProcessErr(ps) = "nil" THEN "insert" ELSE "done",
                    ps |-> ps, err |-> ProcessErr(ps), read |-> <<>>]]
    /\ UNCHANGED <<d, partials, partialsIdx, signed, issued>>

\* line 170: d.partialsIdx[ps.Partial.I] = true
InsertIdx(t) ==
    /\ call[t].pc = "insert"
    /\ partialsIdx' = partialsIdx \cup {call[t].ps.Partial.I}
    /\ call' = [call EXCEPT ![t].pc = "load"]
    /\ UNCHANGED <<d, partials, signed, issued>>

\* line 171, right-hand side: append reads the slice d.partials
LoadPartials(t) ==
    /\ call[t].pc = "load"
    /\ call' = [call EXCEPT ![t].pc = "store", ![t].read = partials]
    /\ UNCHANGED <<d, partials, partialsIdx, signed, issued>>

\* line 171, assignment: d.partials becomes the slice read with the share
\* appended; line 172: return nil
StorePartials(t) ==
    /\ call[t].pc = "store"
    /\ partials' = Append(call[t].read, call[t].ps.Partial)
    /\ call' = [call EXCEPT ![t].pc = "done", ![t].read = <<>>]
    /\ UNCHANGED <<d, partialsIdx, signed, issued>>

NextConc ==
    \/ \E t \in Threads, i \in Indices, av \in 0 .. 1 :
          Check(t, PSInput(i, av, d.sessionID, "own"))
    \/ \E t \in Threads : InsertIdx(t)
    \/ \E t \in Threads : LoadPartials(t)
    \/ \E t \in Threads : StorePartials(t)

SpecConc == InitConc /\ [][NextConc]_vars

\* ------------------------------------------------------- fair delivery
\* the honest partial signature of participant j is handed to the session
DeliverHonest(j) == ProcessPartialSig(PSInput(j, 0, d.sessionID, "own"))

NextFair ==
    \/ \E signErr \in BOOLEAN : PartialSig(signErr)
    \/ \E j \in Indices : DeliverHonest(j)
    \/ QueryEnoughPartialSig
    \/ Signature

\* a partial signature of one of T participants (those of the positions below
\* T) that the session has not accepted yet is delivered
DeliverPending ==
    \E j \in Indices : j < d.T /\ j \notin partialsIdx /\ DeliverHonest(j)

\* The network is fair to the partial signatures of these T participants: as
\* long as one of them is outstanding, one is eventually delivered; the other
\* participants may stay silent.
SpecFair ==
    /\ Init
    /\ [][NextFair]_vars
    /\ WF_vars(DeliverPending)

\* ------------------------------------------------------------- claims
\* the checks of ProcessPartialSig, stated on the argument and on the session
\* as it is when the call is made
InRange(ps) == 0 <= ps.Partial.I /\ ps.Partial.I < N
TagVerifies(ps) ==
    /\ ps.Signature.pk = participants[ps.Partial.I + 1]
    /\ ps.Signature.m = Hash(<<Hash(<<ps.Partial.V>>), ps.SessionID>>)
SameSession(ps) == ps.SessionID = d.sessionID
Accepted(i) == \E k \in DOMAIN partials : partials[k].I = i
ValueValid(ps) ==
    ps.Partial.V = HonestValue(ps.Partial.I)
FirstFailing(ps) ==
    IF ~InRange(ps) THEN "IndexOutOfRange"
    ELSE IF ~TagVerifies(ps) THEN "InvalidAuthentication"
    ELSE IF ~SameSession(ps) THEN "SessionMismatch"
    ELSE IF Accepted(ps.Partial.I) THEN "DuplicateShare"
    ELSE IF ~ValueValid(ps) THEN "InvalidPartialValue"
    ELSE "nil"
DistinctIndices ==
    \A i, j \in DOMAIN partials : partials[i].I = partials[j].I => i = j
HonestShares ==
    \A k \in DOMAIN partials : partials[k].V = HonestValue(partials[k].I)

\* C1: in every reachable state the list of accepted shares holds at most one
\* entry per index, the owner's own index included.
C1_OneSharePerIndex == DistinctIndices

\* C2: whenever ProcessPartialSig returns an error, partials, partialsIdx and
\* signed are exactly what they were before the call.
C2_RejectLeavesState ==
    [][(call'.op = "ProcessPartialSig" /\ call'.err # "nil")
          => UNCHANGED <<partials, partialsIdx, signed>>]_vars
C2_Witness ==
    /\ call.op = "ProcessPartialSig"
    /\ call.err = "InvalidPartialValue"
    /\ Len(partials) >= 1

\* the combined secret of a sharing: the discrete logarithm of its commitment 0
CombinedSecret(dks) == CHOOSE a \in Scalars : BaseMul(a) = dks.commits[1]

\* C3: with T equal to the t of the sharing, once at least T honest shares of
\* distinct indices are accepted, in any order, Signature succeeds and returns
\* R || gamma with gamma = c*a + r, so that gamma*G = R + c*A.
C3_SignatureCorrect ==
    (/\ call.op = "Signature"
     /\ d.T = Len(d.long.commits)
     /\ Len(partials) >= d.T
     /\ DistinctIndices
     /\ HonestShares)
    => /\ call.err = "nil"
       /\ Len(call.sig) = 2
       /\ call.sig[1] = d.random.commits[1]
       /\ call.sig[2] = ScalarAdd(ScalarMul(HashToScalar(d.random.commits[1],
                                                         d.long.commits[1], d.msg),
                                            CombinedSecret(d.long)),
                                  CombinedSecret(d.random))
       /\ BaseMul(call.sig[2]) =
             PointAdd(d.random.commits[1],
                      PointMul(HashToScalar(d.random.commits[1], d.long.commits[1], d.msg),
                               d.long.commits[1]))
C3_Witness ==
    /\ call.op = "Signature"
    /\ call.err = "nil"
    /\ d.T = Len(d.long.commits)
    /\ Len(partials) = N
    /\ DistinctIndices
    /\ partials[1].I # d.index
    /\ partials[1].I > partials[2].I

\* C4: with fewer than T accepted shares Signature fails with
\* InsufficientShares, returns no bytes and changes nothing; hence no signature
\* is returned before the number of accepted shares has reached T.
C4_InsufficientShares ==
    [][call'.op = "Signature"
          => /\ (Len(partials) < d.T
                   => /\ call'.err = "InsufficientShares"
                      /\ call'.sig = <<>>
                      /\ UNCHANGED state)
             /\ (call'.sig # <<>> => Len(partials) >= d.T)]_vars
C4_Witness ==
    /\ call.op = "Signature"
    /\ call.err = "InsufficientShares"
    /\ Len(partials) = 1
    /\ d.T = 2

\* C5: EnoughPartialSig returns true exactly when the number of accepted
\* shares is at least T, and the call changes nothing in the session.
C5_EnoughIsPureThreshold ==
    [][call'.op = "EnoughPartialSig"
          => /\ call'.enough = (Len(partials) >= d.T)
             /\ UNCHANGED state]_vars
C5_Witness ==
    /\ call.op = "EnoughPartialSig"
    /\ call.enough
    /\ Len(partials) = d.T

\* C6: a ProcessPartialSig carrying an index that is already accepted, with a
\* valid tag and the session's id, is rejected with DuplicateShare and the
\* accepted list does not grow, also when the value is the valid one.
C6_DuplicateRejected ==
    [][(/\ call'.op = "ProcessPartialSig"
        /\ Accepted(call'.ps.Partial.I)
        /\ TagVerifies(call'.ps)
        /\ SameSession(call'.ps))
          => /\ call'.err = "DuplicateShare"
             /\ partials' = partials]_vars
C6_Witness ==
    /\ call.op = "ProcessPartialSig"
    /\ call.err = "DuplicateShare"
    /\ call.ps.Partial.I = d.index
    /\ signed
    /\ ValueValid(call.ps)
    /\ Len(partials) = 1

\* C7: PartialSig records the own share on the first call only; a later call
\* leaves partials, partialsIdx and signed as they are, and every call returns
\* the index, value and session id the first call returned.
C7_PartialSigIdempotent ==
    [][call'.op = "PartialSig"
          => /\ signed'
             /\ (signed => UNCHANGED <<partials, partialsIdx, signed>>)
             /\ (~signed => /\ partials' = Append(partials, call'.ps.Partial)
                            /\ partialsIdx' = partialsIdx \cup {d.index})
             /\ call'.ps.Partial = issued'.Partial
             /\ call'.ps.SessionID = issued'.SessionID
             /\ call'.ps.Partial.I = d.index
             /\ call'.ps.SessionID = d.sessionID]_vars
C7_Witness ==
    /\ call.op = "PartialSig"
    /\ issued # NoPS
    /\ issued.Signature # call.ps.Signature
    /\ Len(partials) = 1

\* C8: the error ProcessPartialSig returns is that of the first failing check
\* in the order index range, authentication tag, session id, duplicate index,
\* algebraic validity, and it returns none when no check fails.
C8_FirstFailingCheck ==
    [][(call'.op = "ProcessPartialSig" /\ call'.err # "panic")
          => call'.err = FirstFailing(call'.ps)]_vars
C8_Witness ==
    /\ call.op = "ProcessPartialSig"
    /\ call.err = "InvalidAuthentication"
    /\ call.ps.SessionID # d.sessionID
    /\ InRange(call.ps)

\* C9: for every index outside [0, n), negative ones included,
\* ProcessPartialSig returns IndexOutOfRange.
C9_OutOfRangeRejected ==
    (call.op = "ProcessPartialSig" /\ ~InRange(call.ps))
       => call.err = "IndexOutOfRange"

\* C10: a partial signature with an in-range index i is accepted only if its
\* tag verifies under participants[i] over hash(value, claimed session id),
\* and is rejected with InvalidAuthentication otherwise; a tag of another
\* participant never records a share under i.
C10_AuthenticatedIndex ==
    [][(call'.op = "ProcessPartialSig" /\ InRange(call'.ps))
          => /\ (call'.err = "nil" => TagVerifies(call'.ps))
             /\ (~TagVerifies(call'.ps)
                   => /\ call'.err = "InvalidAuthentication"
                      /\ UNCHANGED <<partials, partialsIdx>>)
             /\ (call'.ps.Signature.pk # participants[call'.ps.Partial.I + 1]
                   => partials' = partials)]_vars
C10_Witness ==
    /\ call.op = "ProcessPartialSig"
    /\ call.err = "InvalidAuthentication"
    /\ InRange(call.ps)
    /\ call.ps.Signature.pk # participants[call.ps.Partial.I + 1]
    /\ call.ps.Signature.m = Hash(<<Hash(<<call.ps.Partial.V>>), call.ps.SessionID>>)
    /\ SameSession(call.ps)
    /\ ValueValid(call.ps)
    /\ ~Accepted(call.ps.Partial.I)

\* C11: every share ProcessPartialSig accepts under index i satisfies
\* value*G = c*LongPoly(i) + RandomPoly(i); an altered value is never accepted:
\* it is rejected with InvalidAuthentication when the tag does not cover it and
\* with InvalidPartialValue when the tag, session id and duplicate checks pass.
C11_AlteredValueRejected ==
    [][call'.op = "ProcessPartialSig"
          => /\ (call'.err = "nil"
                   => BaseMul(call'.ps.Partial.V) =
                         PointAdd(PointMul(HashToScalar(d.random.commits[1],
                                                        d.long.commits[1], d.msg),
                                           PubEval(d.long.commits, call'.ps.Partial.I)),
                                  PubEval(d.random.commits, call'.ps.Partial.I)))
             /\ ((InRange(call'.ps) /\ ~ValueValid(call'.ps))
                   => /\ call'.err # "nil"
                      /\ partials' = partials
                      /\ (~TagVerifies(call'.ps) => call'.err = "InvalidAuthentication")
                      /\ ((/\ TagVerifies(call'.ps)
                           /\ SameSession(call'.ps)
                           /\ ~Accepted(call'.ps.Partial.I))
                            => call'.err = "InvalidPartialValue"))]_vars
C11_Witness ==
    /\ call.op = "ProcessPartialSig"
    /\ call.err = "InvalidPartialValue"
    /\ TagVerifies(call.ps)
    /\ ~ValueValid(call.ps)
    /\ Len(partials) >= 1

\* C15: a successful ProcessPartialSig adds exactly the submitted index to the
\* accepted-index set and appends exactly the submitted share at the end of
\* partials, keeping the earlier entries in order; signed, the session id, T,
\* the message and the key shares are unchanged.
C15_AcceptAppends ==
    [][(call'.op = "ProcessPartialSig" /\ call'.err = "nil")
          => /\ partialsIdx' = partialsIdx \cup {call'.ps.Partial.I}
             /\ call'.ps.Partial.I \notin partialsIdx
             /\ Len(partials') = Len(partials) + 1
             /\ \A k \in DOMAIN partials : partials'[k] = partials[k]
             /\ partials'[Len(partials')] = call'.ps.Partial
             /\ UNCHANGED <<signed, d>>]_vars
C15_Witness ==
    /\ call.op = "ProcessPartialSig"
    /\ call.err = "nil"
    /\ Len(partials) >= 2
    /\ partials[Len(partials)] = call.ps.Partial
    /\ partials[1].I # call.ps.Partial.I

\* C16: when PartialSig returns an error, the own share is not recorded in
\* partials and partialsIdx and the signed flag is not set.
C16_SignErrorLeavesState ==
    [][(call'.op = "PartialSig" /\ call'.err # "nil")
          => UNCHANGED <<partials, partialsIdx, signed>>]_vars

\* C17: whenever EnoughPartialSig is true (T >= 1), the accepted shares come
\* from at least T distinct indices: partials is as long as partialsIdx is
\* large, and its first T entries hold no index twice.
C17_EnoughMeansDistinct ==
    (d.T >= 1 /\ Len(partials) >= d.T)
       => /\ Len(partials) = Cardinality(partialsIdx)
          /\ \A i, j \in 1 .. d.T : partials[i].I = partials[j].I => i = j

\* C13: NewDSS fails with ParticipantNotFound and returns no session exactly
\* when secret*G equals no entry of the participant list; otherwise it returns
\* a session whose index is the first position holding that point, with an
\* empty accepted list, an empty accepted-index set and the issued flag false.
C13_NewDSSResolvesIndex ==
    call.op = "NewDSS"
       => LET pub == BaseMul(call.secret)
              absent == \A j \in DOMAIN call.plist : call.plist[j] # pub
          IN /\ d.err \in {"nil", "ParticipantNotFound"}
             /\ (d.err = "ParticipantNotFound") <=> absent
             /\ d.err = "ParticipantNotFound" => DOMAIN d = {"err"}
             /\ d.err = "nil"
                   => /\ d.index \in 0 .. (Len(call.plist) - 1)
                      /\ call.plist[d.index + 1] = pub
                      /\ \A j \in 1 .. d.index : call.plist[j] # pub
                      /\ partials = <<>>
                      /\ partialsIdx = {}
                      /\ signed = FALSE
C13_Witness ==
    /\ call.op = "NewDSS"
    /\ d.err = "nil"
    /\ d.index = 1
    /\ Len(call.plist) = 3
    /\ call.plist[3] = call.plist[2]

\* ---- claims about sessions of different participants (SpecPeers)
\* the session A was built from the commitment lists of this session
SamePair(A) ==
    /\ A.long.commits = d.long.commits
    /\ A.random.commits = d.random.commits
\* the owner of A holds the DKG shares of its position in the registry
SharesOfPosition(A) == A.long.I = A.index /\ A.random.I = A.index
\* this step hands to ProcessPartialSig what PartialSig of A returned
Delivers(A) ==
    /\ issued' = issued
    /\ call'.op = "ProcessPartialSig"
    /\ call'.ps = issued
    /\ issued = PartialSigOf(A, FALSE)

\* C12: sessions built from different (long-term, ephemeral) commitment-list
\* pairs have different session ids, and a partial signature PartialSig issued
\* in such a session A (index in range, valid tag) is rejected by this session
\* with SessionMismatch; sessions built from the same pair of ordered lists
\* have the same id whatever the owner, the message and T are.
C12_SessionIdBindsPair ==
    \A j \in Indices, kind \in PeerKinds :
       LET A == Peer(j, kind) IN
       /\ ~SamePair(A) => A.sessionID # d.sessionID
       /\ SamePair(A) => A.sessionID = d.sessionID
       /\ (/\ ~SamePair(A)
           /\ call.op = "ProcessPartialSig"
           /\ call.ps = PartialSigOf(A, FALSE)) => call.err = "SessionMismatch"

\* C18: completeness: when the position of participant i equals the index of
\* its DKG shares, the partial signature its PartialSig returns is accepted by
\* every session built from the same participant list, the same key-share pair
\* and the same message that has not yet accepted index i, and the share is
\* appended there.
C18_Completeness ==
    [][\A j \in Indices, kind \in PeerKinds :
          LET A == Peer(j, kind) IN
          (/\ Delivers(A)
           /\ SharesOfPosition(A)
           /\ SamePair(A)
           /\ A.msg = d.msg
           /\ A.index \notin partialsIdx)
          => /\ call'.err = "nil"
             /\ partials' = Append(partials, issued.Partial)
             /\ partialsIdx' = partialsIdx \cup {A.index}]_vars
C18_Witness ==
    /\ call.op = "ProcessPartialSig"
    /\ call.err = "nil"
    /\ call.ps = issued
    /\ call.ps.Partial.I # d.index
    /\ Len(partials) = 2
    /\ \E j \in Indices : issued = PartialSigOf(Peer(j, "same"), FALSE)

\* C19 as stated: the session id does not bind the message, yet a partial
\* signature issued for a message m is never accepted by a session for another
\* message built from the same key-share pair and participants: it passes the
\* first four checks and fails the algebraic one with InvalidPartialValue,
\* leaving the state unchanged.
C19_OtherMessageRejected ==
    [][\A j \in Indices, kind \in PeerKinds :
          LET A == Peer(j, kind) IN
          (/\ Delivers(A)
           /\ SharesOfPosition(A)
           /\ SamePair(A)
           /\ A.msg # d.msg
           /\ A.index \notin partialsIdx)
          => /\ A.sessionID = d.sessionID
             /\ call'.err = "InvalidPartialValue"
             /\ state' = state]_vars

\* C19 amended: the same, for an index whose long-term share commitment
\* LongPoly(i) is not the identity (a zero long-term share gives the same
\* response for every message).
C19_OtherMessageRejectedNonZero ==
    [][\A j \in Indices, kind \in PeerKinds :
          LET A == Peer(j, kind) IN
          (/\ Delivers(A)
           /\ SharesOfPosition(A)
           /\ SamePair(A)
           /\ A.msg # d.msg
           /\ A.index \notin partialsIdx
           /\ PubEval(d.long.commits, A.index) # 0)
          => /\ A.sessionID = d.sessionID
             /\ call'.err = "InvalidPartialValue"
             /\ state' = state]_vars
C19_Witness ==
    /\ call.op = "ProcessPartialSig"
    /\ call.err = "InvalidPartialValue"
    /\ call.ps = issued
    /\ \E j \in Indices :
          /\ issued = PartialSigOf(Peer(j, "message"), FALSE)
          /\ PubEval(d.long.commits, j) # 0
          /\ j \notin partialsIdx

\* ---- claim about concurrent callers (SpecConc)
\* C14: mutating calls on one session are serialized: the duplicate check of a
\* ProcessPartialSig call and its insert into partialsIdx and append to
\* partials take effect as one atomic step, so two concurrent calls carrying
\* the same valid index are never both accepted and no append is lost.
C14_CallsSerialized ==
    /\ \A t, u \in Threads :
          (/\ t # u
           /\ call[t].pc = "done" /\ call[t].err = "nil"
           /\ call[u].pc = "done" /\ call[u].err = "nil")
          => call[t].ps.Partial.I # call[u].ps.Partial.I
    /\ \A t \in Threads :
          (call[t].pc = "done" /\ call[t].err = "nil")
          => \E k \in 1 .. Len(partials) : partials[k] = call[t].ps.Partial

\* ---- claim about progress (SpecFair)
\* C20: the accepted set only grows: no operation removes an accepted share, so
\* once EnoughPartialSig is true it stays true (Signature does not consume
\* shares); under fair delivery of the honest partial signatures of T distinct
\* participants the session eventually reaches and keeps EnoughPartialSig; and
\* a session that holds fewer than T shares yields no signature.
C20_GrowsAndCompletes ==
    /\ [][/\ Len(partials') >= Len(partials)
          /\ SubSeq(partials', 1, Len(partials)) = partials
          /\ partialsIdx \subseteq partialsIdx'
          /\ EnoughPartialSig => EnoughPartialSig']_vars
    /\ <>[]EnoughPartialSig
    /\ []((call.op = "Signature" /\ call.sig # <<>>) => EnoughPartialSig)
C20_Witness ==
    /\ call.op = "Signature"
    /\ call.err = "nil"
    /\ call.sig # <<>>
    /\ d.T = MaxT
    /\ Len(partials) = N
    /\ ~signed

====
